---- MODULE Spec2Model ----
(***************************************************************************)
(* A model of the expense agent of hasanraiyan/agent:                      *)
(*   - the tool contract (the zod schemas of services/aiService.js),       *)
(*   - the response parser and the orchestrator processUserRequest,        *)
(*   - the agent loop handleUserSubmit of screens/AgentScreen.js.          *)
(*   - the expense store of services/AppFunctions.js.                      *)
(* Text is a sequence of tokens: the characters the regular expressions    *)
(* of the parser look at (backtick, braces, newline, space) are tokens of   *)
(* their own, every other token is a run of characters none of which is    *)
(* one of those (a word of prose, a JSON key, a JSON scalar).              *)
(***************************************************************************)
EXTENDS Integers, Sequences, FiniteSets, TLC

VARIABLES
    userInput,      \* useState(''): the text of the input field
    isLoading,      \* useState(false)
    conversation,   \* useState([...]): the turns shown and kept
    loops,          \* the invocations of handleUserSubmit, oldest first
    orch,           \* the last call of processUserRequest and what it did
    stored,         \* AsyncStorage: the item kept under CONVERSATION_KEY
    mount,          \* where loadInitialData of the mount effect is
    prompt,         \* what createMasterPrompt returned last
    expenses,       \* AsyncStorage: the array kept under EXPENSES_KEY
    call            \* the last call of a tool of services/AppFunctions.js

\* What the screen of screens/AgentScreen.js and a single call of
\* processUserRequest leave alone.
aside == <<stored, mount, prompt, expenses, call>>

vars ==
    <<userInput, isLoading, conversation, loops, orch, stored, mount, prompt,
      expenses, call>>

(***************************************************************************)
(* JSON values.  A scalar carries its type tag; an object met as a         *)
(* parameter value (updates) is the tag alone, its members being kept      *)
(* under dotted keys ("updates.amount") beside it.                         *)
(***************************************************************************)
Undefined == [t |-> "undefined", s |-> "", n |-> 0]
Null == [t |-> "null", s |-> "", n |-> 0]
Obj == [t |-> "object", s |-> "", n |-> 0]
Num(k) == [t |-> "number", s |-> "", n |-> k]
Str(x) == [t |-> "string", s |-> x, n |-> 0]

NoFields == [k \in {} |-> Undefined]

\* f with key k bound to v
With(f, k, v) == [x \in DOMAIN f \cup {k} |-> IF x = k THEN v ELSE f[x]]
\* f restricted to the keys in K
Restrict(f, K) == [x \in DOMAIN f \cap K |-> f[x]]
\* f.k in JavaScript: undefined when the key is missing
Get(f, k) == IF k \in DOMAIN f THEN f[k] ELSE Undefined

(***************************************************************************)
(* The tool contract: the eight schemas and their discriminated union.     *)
(***************************************************************************)
Periods == {"today", "this week", "this month", "all"}

ToolNames ==
    {"addExpense", "getSpendingHistory", "listExpenses", "updateExpense",
     "deleteExpenseById", "deleteLastExpense", "answerUser", "clarify"}

Field(type, optional) == [type |-> type, optional |-> optional]

addExpenseSchema ==
    [amount |-> Field("number", FALSE), category |-> Field("string", FALSE),
     note |-> Field("string", TRUE)]

getSpendingHistorySchema == [period |-> Field("enum", FALSE)]

listExpensesSchema == [query |-> Field("string", FALSE)]

updateExpenseSchema ==
    "id" :> Field("string", FALSE) @@ "updates" :> Field("object", FALSE)
    @@ "updates.amount" :> Field("number", TRUE)
    @@ "updates.category" :> Field("string", TRUE)
    @@ "updates.note" :> Field("string", TRUE)

deleteExpenseByIdSchema == [id |-> Field("string", FALSE)]

deleteLastExpenseSchema == [k \in {} |-> Field("string", FALSE)]

answerUserSchema == [answer |-> Field("string", FALSE)]

clarifySchema == [question |-> Field("string", FALSE)]

\* The options of z.discriminatedUnion("tool_name", [...]), keyed by literal.
ToolSchema ==
    [addExpense |-> addExpenseSchema,
     getSpendingHistory |-> getSpendingHistorySchema,
     listExpenses |-> listExpensesSchema,
     updateExpense |-> updateExpenseSchema,
     deleteExpenseById |-> deleteExpenseByIdSchema,
     deleteLastExpense |-> deleteLastExpenseSchema,
     answerUser |-> answerUserSchema,
     clarify |-> clarifySchema]

\* The members of a nested object are the dotted keys under it.
NestedKeys == {"updates.amount", "updates.category", "updates.note"}
ParentOf(k) == IF k \in NestedKeys THEN "updates" ELSE ""
LeafOf(k) ==
    CASE k = "updates.amount" -> "amount"
      [] k = "updates.category" -> "category"
      [] k = "updates.note" -> "note"
      [] OTHER -> k
PathOf(k) ==
    IF k \in NestedKeys THEN <<"parameters", "updates", LeafOf(k)>>
    ELSE <<"parameters", k>>

Issue(code, path) == [code |-> code, path |-> path]

(***************************************************************************)
(* A parsed candidate: what JSON.parse returned.  root is the type of the  *)
(* value itself; tool_name and parameters are its two members (Undefined   *)
(* when missing), fields the members of parameters when it is an object.   *)
(***************************************************************************)
Candidate(root, tn, params, fields) ==
    [root |-> root, tool_name |-> tn, parameters |-> params, fields |-> fields]

NoCommand == [tool_name |-> "", parameters |-> NoFields]

\* The mutant of TypeMatches: z.coerce, which takes a numeric string too.
TypeMatchesCoerce(type, v) ==
    CASE type = "number" -> v.t \in {"number", "string"}
      [] type = "string" -> v.t = "string"
      [] type = "enum" -> v.t = "string"
      [] OTHER -> v.t = "object"

\* typeof checks of z.number(), z.string(), z.enum([...]), z.object({...})
TypeMatches(type, v) ==
    CASE type = "number" -> v.t = "number"
      [] type = "string" -> v.t = "string"
      [] type = "enum" -> v.t = "string"
      [] OTHER -> v.t = "object"

\* The issues zod raises for one declared key of parameters.
FieldIssues(k, spec, v) ==
    IF v.t = "undefined"
    THEN IF spec.optional THEN {} ELSE {Issue("invalid_type", PathOf(k))}
    ELSE IF ~TypeMatches(spec.type, v)
    THEN {Issue("invalid_type", PathOf(k))}
    ELSE IF spec.type = "enum" /\ v.s \notin Periods
    THEN {Issue("invalid_enum_value", PathOf(k))}
    ELSE {}

\* The declared keys zod looks at: a nested key only under an object parent.
CheckedKeys(schema, fields) ==
    {k \in DOMAIN schema :
        k \in NestedKeys => Get(fields, ParentOf(k)).t = "object"}

\* z.object collects the issues of all its keys, not only the first.
ParamIssues(schema, fields) ==
    UNION {FieldIssues(k, schema[k], Get(fields, k)) :
              k \in CheckedKeys(schema, fields)}

\* The mutant of StripUnknown: an absent optional string is defaulted to "".
StripAndDefault(schema, fields) ==
    [k \in CheckedKeys(schema, fields) |->
        IF k \in DOMAIN fields THEN fields[k] ELSE Str("")]

\* The mutant of StripUnknown: z.object(...).passthrough(), which keeps the
\* keys it does not declare.
KeepUnknown(schema, fields) == fields

\* z.object strips the keys it does not declare and adds none: a declared
\* key is in the output exactly when it is in the input.
StripUnknown(schema, fields) ==
    Restrict(fields, CheckedKeys(schema, fields))

\* The mutant of DiscriminatorIssues: a plain z.union reports invalid_union
\* at the root, for an unknown tool as for malformed parameters.
PlainUnionIssues(c) ==
    IF c.tool_name.t = "string" /\ c.tool_name.s \in DOMAIN ToolSchema
       /\ c.parameters.t = "object"
       /\ ParamIssues(ToolSchema[c.tool_name.s], c.fields) = {}
    THEN {}
    ELSE {Issue("invalid_union", <<>>)}

\* z.discriminatedUnion: the option is chosen by tool_name alone; a value
\* that names no option raises invalid_union_discriminator at tool_name.
DiscriminatorIssues(c) ==
    IF c.tool_name.t = "string" /\ c.tool_name.s \in DOMAIN ToolSchema
    THEN {}
    ELSE {Issue("invalid_union_discriminator", <<"tool_name">>)}

Accepted(c, schema) ==
    [ok |-> TRUE,
     value |-> [tool_name |-> c.tool_name.s,
                parameters |-> StripUnknown(schema, c.fields)],
     issues |-> {}]

Rejected(issues) == [ok |-> FALSE, value |-> NoCommand, issues |-> issues]

\* ToolSchema.parse(parsed): the validated ToolCall, or the ZodError's issues.
Validate(c) ==
    IF c.root # "object" THEN Rejected({Issue("invalid_type", <<>>)})
    ELSE IF DiscriminatorIssues(c) # {} THEN Rejected(DiscriminatorIssues(c))
    ELSE IF c.parameters.t # "object"
    THEN Rejected({Issue("invalid_type", <<"parameters">>)})
    ELSE LET schema == ToolSchema[c.tool_name.s]
             issues == ParamIssues(schema, c.fields)
         IN  IF issues = {} THEN Accepted(c, schema) ELSE Rejected(issues)

(***************************************************************************)
(* Text.  BT is one backtick (the character cannot be written in a TLA+    *)
(* string), NL a line feed, SP a space.                                    *)
(***************************************************************************)
BT == "<backtick>"
NL == "\n"
SP == " "
LB == "{"
RB == "}"
Whitespace == {NL, SP}

Last(s) == s[Len(s)]
Front(s) == SubSeq(s, 1, Len(s) - 1)
DropFirst(s, k) == SubSeq(s, k + 1, Len(s))
Min(S) == CHOOSE x \in S : \A y \in S : x <= y
Max(S) == CHOOSE x \in S : \A y \in S : x >= y

\* The pieces joined with sep between them: Array.prototype.join.
RECURSIVE Join(_, _)
Join(pieces, sep) ==
    IF pieces = <<>> THEN <<>>
    ELSE IF Len(pieces) = 1 THEN pieces[1]
    ELSE pieces[1] \o sep \o Join(Tail(pieces), sep)

\* The members of S in the order of the sequence order.
RECURSIVE Ordered(_, _)
Ordered(order, S) ==
    IF order = <<>> THEN <<>>
    ELSE (IF Head(order) \in S THEN <<Head(order)>> ELSE <<>>)
         \o Ordered(Tail(order), S)

\* JSON.stringify of a scalar, as one token.
ValLex(v) ==
    CASE v.t = "string" -> "\"" \o v.s \o "\""
      [] v.t = "number" -> ToString(v.n)
      [] v.t = "null" -> "null"
      [] OTHER -> "undefined"

KeyLex(k) == "\"" \o LeafOf(k) \o "\":"

KeyOrder ==
    <<"amount", "category", "note", "period", "query", "id", "updates",
      "answer", "question", "extra">>
NestedOrder == <<"updates.amount", "updates.category", "updates.note">>

\* The member "key":value of an object, the nested object written in place.
MemberText(fields, k) ==
    IF fields[k].t = "object"
    THEN LET inner == Ordered(NestedOrder, DOMAIN fields)
         IN  <<KeyLex(k), LB>>
             \o Join([i \in 1..Len(inner) |->
                         <<KeyLex(inner[i]), ValLex(fields[inner[i]])>>], <<",">>)
             \o <<RB>>
    ELSE <<KeyLex(k), ValLex(fields[k])>>

ObjectText(fields) ==
    LET keys == Ordered(KeyOrder, DOMAIN fields)
    IN  <<LB>> \o Join([i \in 1..Len(keys) |-> MemberText(fields, keys[i])], <<",">>)
        \o <<RB>>

\* The JSON text of a value that is no object.
RootLex(root) ==
    CASE root = "number" -> "5"
      [] root = "string" -> "\"text\""
      [] root = "null" -> "null"
      [] OTHER -> "[]"

\* The JSON text of a candidate, compact, as JSON.stringify writes it.
Stringify(c) ==
    IF c.root # "object" THEN <<RootLex(c.root)>>
    ELSE <<LB>>
         \o Join((IF c.tool_name.t = "undefined" THEN <<>>
                  ELSE <<(<<"\"tool_name\":", ValLex(c.tool_name)>>)>>)
                 \o (IF c.parameters.t = "undefined" THEN <<>>
                     ELSE IF c.parameters.t = "object"
                     THEN <<(<<"\"parameters\":">> \o ObjectText(c.fields))>>
                     ELSE <<(<<"\"parameters\":", ValLex(c.parameters)>>)>>),
                 <<",">>)
         \o <<RB>>

(***************************************************************************)
(* The response parser: the chain of replace calls and the trim that       *)
(* processUserRequest applies to the model's text.                         *)
(***************************************************************************)
IsFenceOpen(s, i) ==
    /\ i + 3 <= Len(s)
    /\ s[i] = BT /\ s[i + 1] = BT /\ s[i + 2] = BT /\ s[i + 3] = "json"

\* .replace(/```json\n?/, ""): the first opening fence, with the line feed
\* after it when there is one.
StripFenceOpen(s) ==
    LET starts == {i \in 1..Len(s) : IsFenceOpen(s, i)}
    IN  IF starts = {} THEN s
        ELSE LET i == Min(starts)
                 j == IF i + 4 <= Len(s) /\ s[i + 4] = NL THEN i + 5 ELSE i + 4
             IN  SubSeq(s, 1, i - 1) \o SubSeq(s, j, Len(s))

\* .replace(/```$/, ""): a fence that ends the text ($ is the end of the
\* input: the expression has no m flag).
StripFenceClose(s) ==
    IF Len(s) >= 3 /\ s[Len(s)] = BT /\ s[Len(s) - 1] = BT /\ s[Len(s) - 2] = BT
    THEN SubSeq(s, 1, Len(s) - 3)
    ELSE s

\* The mutant of StripLeading: /^[\s\S]*?{/, whose prefix may span lines.
StripLeadingAnyLine(s) ==
    LET braces == {i \in 1..Len(s) : s[i] = LB}
    IN  IF braces = {} THEN s ELSE DropFirst(s, Min(braces) - 1)

\* .replace(/^.*?{/, "{"): what precedes the first brace, when it is on the
\* first line (^ is the start of the input and . takes no line feed).
StripLeading(s) ==
    LET braces == {i \in 1..Len(s) : s[i] = LB}
    IN  IF braces = {} THEN s
        ELSE IF \E i \in 1..(Min(braces) - 1) : s[i] = NL THEN s
        ELSE DropFirst(s, Min(braces) - 1)

\* .replace(/}[^}]*$/, "}"): what follows the last closing brace.
StripTrailing(s) ==
    LET braces == {i \in 1..Len(s) : s[i] = RB}
    IN  IF braces = {} THEN s ELSE SubSeq(s, 1, Max(braces))

\* String.prototype.trim
RECURSIVE Trim(_)
Trim(s) ==
    IF s = <<>> THEN s
    ELSE IF Head(s) \in Whitespace THEN Trim(Tail(s))
    ELSE IF Last(s) \in Whitespace THEN Trim(Front(s))
    ELSE s

\* cleanedJsonString
Clean(text) ==
    Trim(StripTrailing(StripLeading(StripFenceClose(StripFenceOpen(text)))))

(***************************************************************************)
(* The parsed values the checks range over: for every tool each declared   *)
(* key absent, well typed or ill typed, with and without an undeclared     *)
(* key; parameters missing or no object; tool names the contract does not  *)
(* know; values that are no object.                                        *)
(***************************************************************************)
\* Every choice of one value per key, a key chosen Undefined being left out.
RECURSIVE Combos(_, _)
Combos(keys, pool) ==
    IF keys = <<>> THEN {NoFields}
    ELSE {IF v.t = "undefined" THEN f ELSE With(f, Head(keys), v) :
             f \in Combos(Tail(keys), pool), v \in pool[Head(keys)]}

Extra == {Undefined, Str("x")}

TopPool ==
    [amount |-> {Undefined, Num(20), Num(0), Str("20")},
     category |-> {Undefined, Str("Food"), Str(""), Num(7)},
     note |-> {Undefined, Str("chai"), Null},
     period |-> {Undefined, Str("today"), Str("this week"), Str("this month"),
                 Str("all"), Str("yesterday"), Num(1)},
     query |-> {Undefined, Str("food"), Num(1)},
     id |-> {Undefined, Str("e1"), Num(1)},
     updates |-> {Undefined, Obj, Str("x")},
     answer |-> {Undefined, Str("Done"), Str(""), Num(1)},
     question |-> {Undefined, Str("Which one?"), Str(""), Null},
     extra |-> Extra]

NestedPool ==
    "updates.amount" :> {Undefined, Num(120), Str("120")}
    @@ "updates.category" :> {Undefined, Str("Travel")}
    @@ "updates.note" :> {Undefined, Str("lunch"), Null}

\* The keys a model would write for a tool: those the prompt lists for it.
KeysOf(tool) ==
    CASE tool = "addExpense" -> <<"amount", "category", "note", "extra">>
      [] tool = "getSpendingHistory" -> <<"period", "extra">>
      [] tool = "listExpenses" -> <<"query", "extra">>
      [] tool = "updateExpense" -> <<"id", "updates">>
      [] tool = "deleteExpenseById" -> <<"id", "extra">>
      [] tool = "deleteLastExpense" -> <<"extra">>
      [] tool = "answerUser" -> <<"answer", "extra">>
      [] tool = "clarify" -> <<"question", "extra">>
      [] OTHER -> <<"amount">>

FieldChoices(tool) ==
    LET top == Combos(KeysOf(tool), TopPool)
    IN  {f \in top : Get(f, "updates").t # "object"}
        \cup {f @@ g : f \in {h \in top : Get(h, "updates").t = "object"},
                       g \in Combos(NestedOrder, NestedPool)}

CandidateToolNames ==
    {Str(t) : t \in ToolNames} \cup {Str("sendEmail"), Str(""), Num(1), Undefined}

Candidates ==
    UNION {{Candidate("object", tn, Obj, f) : f \in FieldChoices(tn.s)} :
              tn \in CandidateToolNames}
    \cup {Candidate("object", tn, p, NoFields) :
             tn \in CandidateToolNames, p \in {Undefined, Str("none")}}
    \cup {Candidate(r, Undefined, Undefined, NoFields) :
             r \in {"number", "string", "null", "array"}}

NoCandidate == Candidate("undefined", Undefined, Undefined, NoFields)

\* The candidates by their JSON text.
TextOfCandidate == [c \in Candidates |-> Stringify(c)]

\* JSON.parse: white space between the tokens is skipped; a text that is
\* the JSON text of no value throws a SyntaxError.
JSONParse(s) ==
    LET core == SelectSeq(s, LAMBDA tok : tok \notin Whitespace)
        hits == {c \in Candidates : TextOfCandidate[c] = core}
    IN  IF hits = {} THEN [ok |-> FALSE, value |-> NoCandidate]
        ELSE [ok |-> TRUE, value |-> CHOOSE c \in hits : TRUE]

(***************************************************************************)
(* Turns.  content is a string (kind "string", its text a token sequence), *)
(* a ToolCall (kind "object") or undefined.  Timestamps are display only   *)
(* and left out.                                                           *)
(***************************************************************************)
TextTurn(role, text) ==
    [role |-> role, kind |-> "string", text |-> text, cmd |-> NoCommand]

CommandTurn(cmd) ==
    [role |-> "ai", kind |-> "object", text |-> <<>>, cmd |-> cmd]

\* The text of a JavaScript string: the empty string is the empty text.
TextOf(x) == IF x = "" THEN <<>> ELSE <<x>>

\* A turn whose content is the JavaScript value v.
ValueTurn(role, v) ==
    [role |-> role,
     kind |-> IF v.t = "string" THEN "string"
              ELSE IF v.t = "undefined" THEN "undefined" ELSE "object",
     text |-> IF v.t = "string" THEN TextOf(v.s) ELSE <<>>,
     cmd |-> NoCommand]

\* a || b
Truthy(v) ==
    \/ v.t = "string" /\ v.s # ""
    \/ v.t = "number" /\ v.n # 0
    \/ v.t = "object"
OrElse(a, b) == IF Truthy(a) THEN a ELSE b

(***************************************************************************)
(* createMasterPrompt                                                      *)
(***************************************************************************)
QUOTE == "\""

\* turn.content.replace(/"/g, '\\"')
EscapeQuotes(text) ==
    [i \in 1..Len(text) |-> IF text[i] = QUOTE THEN "\\\"" ELSE text[i]]

\* JSON.stringify(turn.content, null, 2) of a ToolCall
CommandText(cmd) ==
    <<LB, NL, "\"tool_name\":", SP, ValLex(Str(cmd.tool_name)), ",", NL,
      "\"parameters\":", SP>> \o ObjectText(cmd.parameters) \o <<NL, RB>>

\* turn.content.replace is called on the content of every turn whose role is
\* not "ai": a content that is no string makes it throw a TypeError.
FormatThrows(turn) == turn.role # "ai" /\ turn.kind # "string"

FormatTurn(turn) ==
    IF turn.role = "user"
    THEN <<"User:", SP, QUOTE>> \o EscapeQuotes(turn.text) \o <<QUOTE>>
    ELSE IF turn.role = "ai"
    THEN <<"Your Response:", NL>> \o CommandText(turn.cmd)
    ELSE <<"TOOL_RESULT:", SP, QUOTE>> \o EscapeQuotes(turn.text) \o <<QUOTE>>

PromptThrows(history) == \E i \in 1..Len(history) : FormatThrows(history[i])

\* The tools the prompt tells the model to use (rule 4 and AVAILABLE TOOLS).
PromptTools ==
    <<"addExpense", "getSpendingHistory", "listExpenses", "updateExpense",
      "deleteExpenseById", "deleteLastExpense", "answerUser", "clarify">>

\* The mutant of formattedHistory: only the two latest turns are rendered,
\* history.slice(-2).map(...).join("\n\n").
formattedHistoryRecent(history) ==
    Join([i \in 1..Min({Len(history), 2}) |->
             FormatTurn(history[Len(history) - Min({Len(history), 2}) + i])], <<NL, NL>>)

\* history.map(...).join("\n\n")
formattedHistory(history) ==
    Join([i \in 1..Len(history) |-> FormatTurn(history[i])], <<NL, NL>>)

createMasterPrompt(history) ==
    <<"RULES", NL, "Only use these tools:">> \o PromptTools
    \o <<NL, "Conversation History:", NL>>
    \o formattedHistory(history)
    \o <<NL, NL, "JSON OUTPUT:">>

(***************************************************************************)
(* The model backend, as processUserRequest meets it: fetch rejects        *)
(* (network_error), the status is no success (http_error), the body is no  *)
(* JSON (bad_body), the data has no candidates (no_candidates), an empty   *)
(* candidates list (empty_candidates), a candidate without content         *)
(* (no_content), an empty parts list (empty_parts), or a text.             *)
(***************************************************************************)
Reply(kind, text) == [kind |-> kind, text |-> text]

TransportErrors == {"network_error", "http_error"}
ThrowingData == {"bad_body", "no_candidates", "no_content"}
EmptyData == {"empty_candidates", "empty_parts"}

\* data.candidates[0]?.content.parts[0]?.text || ""
ResponseText(reply) == IF reply.kind \in EmptyData THEN <<>> ELSE reply.text

FallbackQuestion ==
    "Sorry, I had trouble processing that request. Could you please rephrase?"

\* The command the catch block returns.
Fallback ==
    [tool_name |-> "clarify", parameters |-> [question |-> Str(FallbackQuestion)]]

\* What one call did: whether it returned or threw, the fetches it made,
\* the error it logged, the cleaned text, the parsed value and the result.
Outcome(phase, reply, fetches, error, cleaned, parsed, issues, result) ==
    [phase |-> phase, reply |-> reply, fetches |-> fetches, error |-> error,
     cleaned |-> cleaned, parsed |-> parsed, issues |-> issues,
     result |-> result]

\* AsyncStorage.getItem of a key that was never set, or was removed: null
NoItem == [item |-> "null"]

\* No tool of services/AppFunctions.js has been called yet.
NoCall ==
    [tool |-> "", parameters |-> NoFields, before |-> <<>>, result |-> <<>>,
     readFailed |-> FALSE, writeFailed |-> FALSE, wrote |-> FALSE,
     time |-> 0, n |-> 0]

NoReply == Reply("none", <<>>)
Idle == Outcome("idle", NoReply, 0, "none", <<>>, NoCandidate, {}, NoCommand)

\* The catch block: the error is logged and the fallback returned.
Caught(reply, error, cleaned, parsed, issues) ==
    Outcome("returned", reply, 1, error, cleaned, parsed, issues, Fallback)

\* createMasterPrompt is called before the try block: what it throws
\* leaves processUserRequest, and no fetch is made.
PromptOutsideTry(history, reply) ==
    Outcome("threw", reply, 0, "TypeError", <<>>, NoCandidate, {}, NoCommand)

\* processUserRequest(history), the backend answering with reply.
ProcessUserRequest(history, reply) ==
    IF PromptThrows(history) THEN PromptOutsideTry(history, reply)
    ELSE IF reply.kind \in TransportErrors
    THEN Caught(reply, "transport", <<>>, NoCandidate, {})
    ELSE IF reply.kind \in ThrowingData
    THEN Caught(reply, "data", <<>>, NoCandidate, {})
    ELSE LET cleaned == Clean(ResponseText(reply))
             parsed == JSONParse(cleaned)
             validated == Validate(parsed.value)
         IN  IF ~parsed.ok
             THEN Caught(reply, "parse", cleaned, NoCandidate, {})
             ELSE IF ~validated.ok
             THEN Caught(reply, "zod", cleaned, parsed.value, validated.issues)
             ELSE Outcome("returned", reply, 1, "none", cleaned, parsed.value,
                          {}, validated.value)

(***************************************************************************)
(* The texts a model answers with: the JSON text of a candidate or no JSON *)
(* at all, bare or in a json fence, with prose before and after it, on the *)
(* same line or on lines of its own.                                       *)
(***************************************************************************)
ProseBefore == {<<>>, <<"Sure!", SP>>, <<"Here", SP, "you", SP, "go:", NL>>}
ProseAfter ==
    {<<>>, <<SP, "Done.">>, <<NL, "Hope", SP, "this", NL, "helps.">>}

FenceOpen == <<BT, BT, BT, "json", NL>>
FenceClose == <<NL, BT, BT, BT>>

Wrap(pre, fenced, body, post) ==
    pre \o (IF fenced THEN FenceOpen \o body \o FenceClose ELSE body) \o post

JsonBodies == {TextOfCandidate[c] : c \in Candidates}
NonJsonBodies == {<<>>, <<"I", SP, "cannot", SP, "help.">>, <<LB, "\"tool_name\":">>}

ModelTexts ==
    {Wrap(pre, fenced, body, post) :
        pre \in ProseBefore, fenced \in BOOLEAN,
        body \in JsonBodies \cup NonJsonBodies, post \in ProseAfter}

OrchReplies ==
    {Reply(k, <<>>) : k \in TransportErrors \cup ThrowingData \cup EmptyData}
    \cup {Reply("text", t) : t \in ModelTexts}

Welcome ==
    TextTurn("system",
             <<"Welcome! I'm here to help you manage your expenses efficiently.">>)

\* Histories the loop passes: a first request, and a later step of a request.
OrchHistories ==
    {<<Welcome, TextTurn("user", <<"lunch", SP, "50">>)>>,
     <<Welcome, TextTurn("user", <<"say", SP, QUOTE, "hi", QUOTE>>),
       CommandTurn([tool_name |-> "listExpenses",
                    parameters |-> [query |-> Str("food")]]),
       TextTurn("tool", <<"RESULT: No expenses found matching that description.">>)>>}

(***************************************************************************)
(* SpecOrch: one call of processUserRequest, on every history and reply.   *)
(***************************************************************************)
InitOrch ==
    /\ conversation \in OrchHistories
    /\ orch = Idle
    /\ userInput = <<>>
    /\ isLoading = TRUE
    /\ loops = <<>>
    /\ stored = NoItem
    /\ mount = "none"
    /\ prompt = <<>>
    /\ expenses = <<>>
    /\ call = NoCall

OrchCall ==
    /\ orch.phase = "idle"
    /\ \E reply \in OrchReplies : orch' = ProcessUserRequest(conversation, reply)
    /\ UNCHANGED <<userInput, isLoading, conversation, loops, aside>>

NextOrch == OrchCall

SpecOrch == InitOrch /\ [][NextOrch]_vars

(***************************************************************************)
(* The agent loop: handleUserSubmit of screens/AgentScreen.js.             *)
(* React commits the state updates of an event handler, and of each        *)
(* continuation of an async function, before the next event is handled:    *)
(* an action below is one such run to its next await, and the handler the  *)
(* user presses is the one of the last render.                             *)
(***************************************************************************)
MAX_STEPS == 5

\* The accepted submissions of a run.
MaxSubmits == 2

\* The mutant of toolMapping: the four tools the first screen bound.
toolMappingFirst ==
    {"addExpense", "getSpendingHistory", "deleteLastExpense", "answerUser"}

toolMapping ==
    {"addExpense", "getSpendingHistory", "deleteLastExpense", "answerUser",
     "listExpenses", "updateExpense", "deleteExpenseById"}

TerminalTools == {"clarify", "answerUser"}

ToolUnavailableText ==
    <<"I encountered an error while processing your request. Please try again.">>
MoreDetailText ==
    <<"I need more information to complete this request. Could you please provide additional details?">>
SomethingWrongText == <<"Something went wrong. Please try again.">>

\* What the user types: a request in blanks, blanks only.
UserTexts == {<<SP, "lunch", SP, "50", NL>>, <<SP, SP>>}

\* hasText
HasText(text) == Len(Trim(text)) > 0

\* disabled={!hasText || isLoading} of the send button
SendEnabled == HasText(userInput) /\ ~isLoading

\* What the model answers within a submission.
ObjectReply(tool, fields) ==
    Reply("text", Stringify(Candidate("object", Str(tool), Obj, fields)))

LoopReplies ==
    {Reply("network_error", <<>>),
     ObjectReply("addExpense", [amount |-> Num(20), category |-> Str("Food")]),
     Reply("text", Wrap(<<>>, TRUE,
                        Stringify(Candidate("object", Str("answerUser"), Obj,
                                            [answer |-> Str("Done")])), <<>>)),
     ObjectReply("answerUser", [answer |-> Str("")]),
     ObjectReply("clarify", [question |-> Str("")]),
     ObjectReply("sendEmail", [amount |-> Num(20)])}

\* What a bound implementation does with the parameters: it returns one of
\* its status strings or its data as JSON text, or it throws (the stored
\* expenses are JSON that is no array).
ToolResult(threw, text) == [threw |-> threw, text |-> text]

ToolOutcomes(cmd) ==
    {ToolResult(TRUE, <<>>)}
    \cup {ToolResult(FALSE, t) : t \in
            CASE cmd.tool_name = "addExpense" ->
                   {<<"SUCCESS: Expense of", ValLex(Get(cmd.parameters, "amount")),
                      "for", Get(cmd.parameters, "category").s, "has been added.">>}
              [] cmd.tool_name = "getSpendingHistory" -> {<<"[]">>}
              [] cmd.tool_name = "listExpenses" ->
                   {<<"RESULT: No expenses found matching that description.">>}
              [] cmd.tool_name = "deleteLastExpense" ->
                   {<<"ERROR: No expenses to delete.">>}
              [] OTHER ->
                   {<<"ERROR: Could not find an expense with ID",
                      Get(cmd.parameters, "id").s>>}}

\* One invocation of handleUserSubmit: where it is (awaiting the model,
\* awaiting the tool, done), its locals i, currentHistory and command, the
\* length of the history it started from, the calls of processUserRequest
\* and the tool calls it has made, what its catch block caught, and how
\* many of its tool calls threw.
Loop(pc, i, history, command, start, calls, dispatches, fault) ==
    [pc |-> pc, i |-> i, currentHistory |-> history, command |-> command,
     start |-> start, calls |-> calls, dispatches |-> dispatches,
     fault |-> fault, threw |-> 0]

Init ==
    /\ userInput = <<>>
    /\ isLoading = FALSE
    /\ conversation = <<Welcome>>
    /\ loops = <<>>
    /\ orch = Idle
    /\ stored = NoItem
    /\ mount = "none"
    /\ prompt = <<>>
    /\ expenses = <<>>
    /\ call = NoCall

\* onChangeText={setUserInput}, the field being editable={!isLoading}; the
\* effects of the mount have run before anything is typed.
TypeInput ==
    /\ ~isLoading
    /\ mount # "start"
    /\ \E text \in UserTexts : userInput' = text
    /\ UNCHANGED <<isLoading, conversation, loops, orch, aside>>

\* The mutant of AcceptedLoading: setIsLoading(true) is forgotten.
AcceptedLoadingForgotten == FALSE

\* setIsLoading(true) of an accepted submission
AcceptedLoading == TRUE

\* A press of the send button: handleUserSubmit up to its first await.
HandleUserSubmit ==
    /\ SendEnabled
    /\ Len(loops) < MaxSubmits
    /\ IF Trim(userInput) = <<>> \/ isLoading
       THEN UNCHANGED vars
       ELSE LET userMessage == TextTurn("user", Trim(userInput))
                currentHistory == Append(conversation, userMessage)
            IN  /\ conversation' = Append(conversation, userMessage)
                /\ userInput' = <<>>
                /\ isLoading' = AcceptedLoading
                /\ loops' = Append(loops, Loop("model", 0, currentHistory, NoCommand,
                                               Len(currentHistory), 0, 0, "none"))
                /\ UNCHANGED <<orch, aside>>

\* The mutant of Ended: the handler hangs before its finally block.
EndedHanging(l, history, command, fault) ==
    [l EXCEPT !.pc = "hung", !.currentHistory = history, !.command = command,
              !.fault = fault]

\* The loop l ended: it is done and its finally block has run.
Ended(l, history, command, fault) ==
    [l EXCEPT !.pc = "done", !.currentHistory = history, !.command = command,
              !.fault = fault]

\* The content of the final turn of a terminal tool:
\* command.parameters.question || command.parameters.answer
FinalContent(command) ==
    OrElse(Get(command.parameters, "question"), Get(command.parameters, "answer"))

\* The mutant of Unavailable: the lookup is not tested.
UnavailableIgnored(tool) == FALSE

\* !toolToCall, toolToCall being toolMapping[command.tool_name]
Unavailable(tool) == tool \notin toolMapping

\* What loop k does with what processUserRequest settled with: the step
\* runs to its next await.
DecisionStep(k, out) ==
    LET l == [loops[k] EXCEPT !.calls = @ + 1]
        command == out.result
        history == Append(l.currentHistory, CommandTurn(command))
    IN  /\ orch' = out
        /\ IF out.phase = "threw"
           THEN /\ conversation' =
                     Append(conversation, TextTurn("system", SomethingWrongText))
                /\ loops' = [loops EXCEPT ![k] =
                                Ended(l, l.currentHistory, l.command, "orchestrator")]
                /\ isLoading' = FALSE
           ELSE IF command.tool_name \in TerminalTools
           THEN /\ conversation' =
                     Append(history, ValueTurn("system", FinalContent(command)))
                /\ loops' = [loops EXCEPT ![k] = Ended(l, history, command, "none")]
                /\ isLoading' = FALSE
           ELSE IF Unavailable(command.tool_name)
           THEN /\ conversation' =
                     Append(history, TextTurn("system", ToolUnavailableText))
                /\ loops' = [loops EXCEPT ![k] = Ended(l, history, command, "none")]
                /\ isLoading' = FALSE
           ELSE /\ conversation' = history
                /\ loops' = [loops EXCEPT ![k] =
                                [l EXCEPT !.pc = "tool", !.currentHistory = history,
                                          !.command = command,
                                          !.dispatches = @ + 1]]
                /\ isLoading' = isLoading
        /\ UNCHANGED <<userInput, aside>>

\* processUserRequest settles for loop k.
OrchestratorReturns(k) ==
    /\ loops[k].pc = "model"
    /\ \E reply \in LoopReplies :
        DecisionStep(k, ProcessUserRequest(loops[k].currentHistory, reply))

\* The mutant of LoopContinues: the bound is taken inclusively.
LoopContinuesInclusive(i) == i + 1 <= MAX_STEPS

\* i++ and the test i < MAX_STEPS of the for statement
LoopContinues(i) == i + 1 < MAX_STEPS

\* The mutant of Observed: the observation is not pushed.
ObservedLost(history, text) == history

\* currentHistory.push(toolTurn)
Observed(history, text) == Append(history, TextTurn("tool", text))

\* The bound implementation settles for loop k: the rest of the iteration
\* and the head of the for statement.
ToolReturns(k) ==
    /\ loops[k].pc = "tool"
    /\ \E res \in ToolOutcomes(loops[k].command) :
        LET l == loops[k]
            history == Observed(l.currentHistory, res.text)
            shown == IF l.i = MAX_STEPS - 1
                     THEN Append(history, TextTurn("system", MoreDetailText))
                     ELSE history
        IN  IF res.threw
            THEN /\ conversation' =
                      Append(conversation, TextTurn("system", SomethingWrongText))
                 /\ loops' = [loops EXCEPT ![k] =
                                 [Ended(l, l.currentHistory, l.command, "tool")
                                     EXCEPT !.threw = @ + 1]]
                 /\ isLoading' = FALSE
            ELSE IF LoopContinues(l.i)
            THEN /\ conversation' = shown
                 /\ loops' = [loops EXCEPT ![k] =
                                 [l EXCEPT !.pc = "model", !.i = @ + 1,
                                           !.currentHistory = history]]
                 /\ isLoading' = isLoading
            ELSE /\ conversation' = shown
                 /\ loops' = [loops EXCEPT ![k] = Ended(l, history, l.command, "none")]
                 /\ isLoading' = FALSE
    /\ UNCHANGED <<userInput, orch, aside>>

Next ==
    \/ TypeInput
    \/ HandleUserSubmit
    \/ \E k \in 1..Len(loops) : OrchestratorReturns(k)
    \/ \E k \in 1..Len(loops) : ToolReturns(k)

Spec == Init /\ [][Next]_vars

\* The same screen where every call that was made settles: the promise of
\* processUserRequest and the promise of the tool are fulfilled or rejected
\* in the end.
SpecLive ==
    /\ Spec
    /\ WF_vars(\E k \in 1..Len(loops) : OrchestratorReturns(k))
    /\ WF_vars(\E k \in 1..Len(loops) : ToolReturns(k))

(***************************************************************************)
(* The same loop over the processUserRequest of the earlier revision       *)
(* (src/unnamed/part_001), which strips the fence and returns what         *)
(* JSON.parse gave it without validating it: the orchestrator under which  *)
(* a tool name that toolMapping does not know reaches the loop.  Its       *)
(* createMasterPrompt interpolates the content and never throws.           *)
(***************************************************************************)
\* The value JSON.parse returned, read as the loop reads a command: its
\* tool_name (no string: no tool) and its parameters.
Unvalidated(c) ==
    [tool_name |-> IF c.root = "object" /\ c.tool_name.t = "string"
                   THEN c.tool_name.s ELSE "",
     parameters |-> IF c.root = "object" /\ c.parameters.t = "object"
                    THEN c.fields ELSE NoFields]

LegacyProcessUserRequest(history, reply) ==
    IF reply.kind \in TransportErrors
    THEN Caught(reply, "transport", <<>>, NoCandidate, {})
    ELSE IF reply.kind \in ThrowingData \cup EmptyData
    THEN Caught(reply, "data", <<>>, NoCandidate, {})
    ELSE LET cleaned == StripFenceClose(StripFenceOpen(reply.text))
             parsed == JSONParse(cleaned)
         IN  IF ~parsed.ok
             THEN Caught(reply, "parse", cleaned, NoCandidate, {})
             ELSE Outcome("returned", reply, 1, "none", cleaned, parsed.value,
                          {}, Unvalidated(parsed.value))

\* The earlier processUserRequest settles for loop k.
LegacyReturns(k) ==
    /\ loops[k].pc = "model"
    /\ \E reply \in LoopReplies :
        DecisionStep(k, LegacyProcessUserRequest(loops[k].currentHistory, reply))

NextLegacy ==
    \/ TypeInput
    \/ HandleUserSubmit
    \/ \E k \in 1..Len(loops) : LegacyReturns(k)
    \/ \E k \in 1..Len(loops) : ToolReturns(k)

SpecLegacy == Init /\ [][NextLegacy]_vars

(***************************************************************************)
(* The screen that keeps its conversation (src/unnamed/part_002, from line *)
(* 122 on).  The conversation starts empty and is loaded by the mount      *)
(* effect; an effect saves it after every change; "thinking" entries are   *)
(* put into it and taken out of it; the decision is not made a turn; a     *)
(* tool call that throws is made an observation.                           *)
(***************************************************************************)
MaxPersistedSubmits == MaxSubmits - 1

\* A thinking entry; id stands for `thinking-${Date.now()}`, which no other
\* entry has.
ThinkingTurn(id, text) ==
    [role |-> "thinking", kind |-> "string", text |-> text, cmd |-> NoCommand,
     id |-> id]

IsThinking(m, id) == m.role = "thinking" /\ m.id = id

addThinkingMessage(conv, id, text) == Append(conv, ThinkingTurn(id, text))

removeThinkingMessage(conv, id) == SelectSeq(conv, LAMBDA m : ~IsThinking(m, id))

updateThinkingMessage(conv, id, text) ==
    [j \in 1..Len(conv) |->
        IF IsThinking(conv[j], id) THEN [conv[j] EXCEPT !.text = text] ELSE conv[j]]

getToolDisplayName(tool) ==
    CASE tool = "addExpense" -> <<"Adding expense...">>
      [] tool = "getSpendingHistory" -> <<"Getting spending history...">>
      [] tool = "deleteLastExpense" -> <<"Deleting last expense...">>
      [] tool = "listExpenses" -> <<"Listing expenses...">>
      [] tool = "updateExpense" -> <<"Updating expense...">>
      [] tool = "deleteExpenseById" -> <<"Deleting expense...">>
      [] tool \in TerminalTools -> <<"Preparing response...">>
      [] OTHER -> <<"Processing:", SP, tool, "...">>

\* JSON.stringify(conversation): a key whose value is undefined is left out.
StringifyTurn(m) ==
    IF m.kind = "undefined" THEN [role |-> m.role, omitted |-> "content"] ELSE m

StringifyConversation(conv) ==
    [item |-> "json", value |-> [j \in 1..Len(conv) |-> StringifyTurn(conv[j])]]

\* JSON.parse(savedConversation): a key that was left out reads undefined.
ParseTurn(r) ==
    IF "omitted" \in DOMAIN r THEN ValueTurn(r.role, Undefined) ELSE r

ParseConversation(item) == [j \in 1..Len(item.value) |-> ParseTurn(item.value[j])]

\* The mutant of SaveEffect: the test is the one of loadInitialData, so a
\* conversation of one turn is not saved.
SaveEffectLonger(conv, item) ==
    IF Len(conv) > 1 THEN StringifyConversation(conv) ELSE item

\* The effect on [conversation]: a conversation that is not empty is saved.
SaveEffect(conv, item) ==
    IF Len(conv) > 0 THEN StringifyConversation(conv) ELSE item

DefaultWelcome == TextTurn("system", <<"Welcome! How can I help with your expenses?">>)

\* What an earlier session may have left under CONVERSATION_KEY: nothing,
\* the welcome alone, a finished request, a request that ended with a
\* clarify whose question was empty.
StoredAtStart ==
    {NoItem,
     StringifyConversation(<<DefaultWelcome>>),
     StringifyConversation(<<DefaultWelcome, TextTurn("user", <<"lunch", SP, "50">>),
                             TextTurn("tool", <<"SUCCESS: Expense of", "50", "for",
                                                "Food", "has been added.">>),
                             TextTurn("system", <<"Done">>)>>),
     StringifyConversation(<<DefaultWelcome, TextTurn("user", <<"hm">>),
                             ValueTurn("system", Undefined)>>)}

InitPersisted ==
    /\ userInput = <<>>
    /\ isLoading = FALSE
    /\ conversation = <<>>
    /\ loops = <<>>
    /\ orch = Idle
    /\ stored \in StoredAtStart
    /\ mount = "start"
    /\ prompt = <<>>
    /\ expenses = <<>>
    /\ call = NoCall

WelcomeThinkingId == <<0, 0>>

\* loadInitialData up to its return or its first await after getItem.
LoadInitialData ==
    /\ mount = "start"
    /\ IF stored # NoItem /\ Len(stored.value) > 1
       THEN /\ conversation' = ParseConversation(stored)
            /\ mount' = "restored"
       ELSE /\ conversation' =
                 addThinkingMessage(conversation, WelcomeThinkingId,
                                    <<"Getting your expense summary...">>)
            /\ mount' = "greeting"
    /\ stored' = SaveEffect(conversation', stored)
    /\ UNCHANGED <<userInput, isLoading, loops, orch, prompt, expenses, call>>

PrimingHistory ==
    <<TextTurn("user", <<"The user has just opened the app. Here is their expense data for today:",
                         SP, "[]">>)>>

\* What the model answers the priming request with.
GreetingReplies ==
    {Reply("network_error", <<>>),
     ObjectReply("answerUser", [answer |-> Str("Welcome back!")]),
     ObjectReply("listExpenses", [query |-> Str("today")])}

\* welcomeMessage
WelcomeMessage(command) ==
    IF command.tool_name \in TerminalTools
    THEN OrElse(Get(command.parameters, "answer"), Get(command.parameters, "question"))
    ELSE Str("Welcome! How can I help with your expenses?")

\* The catch block of loadInitialData.  Its first statement reads
\* welcomeThinkingId, a const of the try block that is not in scope here:
\* a ReferenceError is thrown before setConversation is reached, and the
\* conversation stays what it was.
CatchBlock(conv) == conv

\* The rest of loadInitialData: the summary is read (or the reading throws,
\* the stored expenses being no array) and the model has answered the
\* priming request.
WelcomeArrives ==
    /\ mount = "greeting"
    /\ \E failed \in BOOLEAN, reply \in GreetingReplies :
        LET out == ProcessUserRequest(PrimingHistory, reply)
        IN  IF failed
            THEN /\ conversation' = CatchBlock(conversation)
                 /\ orch' = orch
                 /\ mount' = "failed"
            ELSE /\ conversation' = <<ValueTurn("system", WelcomeMessage(out.result))>>
                 /\ orch' = out
                 /\ mount' = "done"
    /\ stored' = SaveEffect(conversation', stored)
    /\ UNCHANGED <<userInput, isLoading, loops, prompt, expenses, call>>

\* What the model answers within a submission of this screen: at its first
\* step any of the decisions below, later an expense or the answer.
PersistedReplies(i) ==
    {ObjectReply("addExpense", [amount |-> Num(20), category |-> Str("Food")]),
     ObjectReply("answerUser", [answer |-> Str("Done")])}
    \cup IF i > 0 THEN {}
         ELSE {Reply("network_error", <<>>),
               ObjectReply("addExpense", [amount |-> Num(0), category |-> Str("Food")]),
               ObjectReply("deleteLastExpense", NoFields),
               ObjectReply("deleteExpenseById", [id |-> Str("e1")])}

\* msg.content.includes('Expense'), of the texts a turn can have here
IncludesExpense(text) ==
    \E j \in 1..Len(text) : text[j] \in {"SUCCESS: Expense of", "SUCCESS: Expense"}

\* hasExpenseList, over the conversation of the render the handler is from
\* (the tools that are called here return strings, never arrays)
HasExpenseList(conv) ==
    \E j \in 1..Len(conv) :
        conv[j].role = "tool" /\ conv[j].kind = "string" /\ IncludesExpense(conv[j].text)

NoLogicError == <<>>

\* logicError
LogicError(command, conv) ==
    IF command.tool_name = "addExpense" /\ Get(command.parameters, "amount").n <= 0
    THEN <<"Expense amount must be greater than zero.">>
    ELSE IF command.tool_name = "deleteExpenseById" /\ ~HasExpenseList(conv)
    THEN <<"No expenses found to delete. Please list expenses first.">>
    ELSE NoLogicError

ToolFailedText == <<"Tool execution failed.">>

\* A press of the send button: handleUserSubmit up to its first await,
\* the thinking entry of the first step included.
PersistedSubmit ==
    /\ SendEnabled
    /\ Len(loops) < MaxPersistedSubmits
    /\ IF Trim(userInput) = <<>> \/ isLoading
       THEN UNCHANGED vars
       ELSE LET userMessage == TextTurn("user", Trim(userInput))
                currentHistory == Append(conversation, userMessage)
                thinkingId == <<Len(loops) + 1, 0>>
            IN  /\ conversation' =
                     addThinkingMessage(Append(conversation, userMessage),
                                        thinkingId, <<"Thinking...">>)
                /\ userInput' = <<>>
                /\ isLoading' = AcceptedLoading
                /\ loops' = Append(loops,
                      Loop("model", 0, currentHistory, NoCommand,
                           Len(currentHistory), 0, 0, "none")
                      @@ [thinkingId |-> thinkingId, closure |-> conversation,
                          cleared |-> FALSE])
                /\ stored' = SaveEffect(conversation', stored)
                /\ UNCHANGED <<orch, mount, prompt, expenses, call>>

\* processUserRequest settles for loop k: the thinking entry is updated and
\* the 200 ms pause begins, or the catch block runs.
PersistedDecision(k) ==
    /\ loops[k].pc = "model"
    /\ \E reply \in PersistedReplies(loops[k].i) :
        LET l == [loops[k] EXCEPT !.calls = @ + 1]
            out == ProcessUserRequest(l.currentHistory, reply)
        IN  /\ orch' = out
            /\ IF out.phase = "threw"
               THEN /\ conversation' =
                         Append(conversation, TextTurn("system", SomethingWrongText))
                    /\ loops' = [loops EXCEPT ![k] =
                                    Ended(l, l.currentHistory, l.command, "orchestrator")]
                    /\ isLoading' = FALSE
               ELSE /\ conversation' =
                         updateThinkingMessage(conversation, l.thinkingId,
                                               getToolDisplayName(out.result.tool_name))
                    /\ loops' = [loops EXCEPT ![k] =
                                    [l EXCEPT !.pc = "pause", !.command = out.result]]
                    /\ isLoading' = isLoading
    /\ stored' = SaveEffect(conversation', stored)
    /\ UNCHANGED <<userInput, mount, prompt, expenses, call>>

\* The pause is over: the decision is acted on, up to the call of the tool.
PersistedAct(k) ==
    /\ loops[k].pc = "pause"
    /\ LET l == loops[k]
           shown == removeThinkingMessage(conversation, l.thinkingId)
           logicError == LogicError(l.command, l.closure)
           ends == Ended(l, l.currentHistory, l.command, "none")
       IN  IF l.command.tool_name \in TerminalTools
           THEN /\ conversation' =
                     Append(shown, ValueTurn("system", FinalContent(l.command)))
                /\ loops' = [loops EXCEPT ![k] = ends]
                /\ isLoading' = FALSE
           ELSE IF Unavailable(l.command.tool_name)
           THEN /\ conversation' = Append(shown, TextTurn("system", ToolUnavailableText))
                /\ loops' = [loops EXCEPT ![k] = ends]
                /\ isLoading' = FALSE
           ELSE IF logicError # NoLogicError
           THEN /\ conversation' = Append(shown, TextTurn("system", logicError))
                /\ loops' = [loops EXCEPT ![k] = ends]
                /\ isLoading' = FALSE
           ELSE /\ conversation' = shown
                /\ loops' = [loops EXCEPT ![k] =
                                [l EXCEPT !.pc = "tool", !.dispatches = @ + 1]]
                /\ isLoading' = isLoading
    /\ stored' = SaveEffect(conversation', stored)
    /\ UNCHANGED <<userInput, orch, mount, prompt, expenses, call>>

\* What the tool of loop l does: a tool throws at most once while the
\* screen is up.
PersistedOutcomes(l) ==
    {res \in ToolOutcomes(l.command) :
        res.threw => \A j \in 1..Len(loops) : loops[j].threw = 0}

\* telemetryToolCall settles for loop k: what it threw is made the result;
\* the rest of the iteration, and the head of the next one.
PersistedToolReturns(k) ==
    /\ loops[k].pc = "tool"
    /\ \E res \in PersistedOutcomes(loops[k]) :
        LET l == [loops[k] EXCEPT !.threw = IF res.threw THEN @ + 1 ELSE @]
            toolResult == IF res.threw THEN ToolFailedText ELSE res.text
            history == Observed(l.currentHistory, toolResult)
            observed == Append(conversation, TextTurn("tool", toolResult))
            shown == IF l.i = MAX_STEPS - 1
                     THEN Append(observed, TextTurn("system", MoreDetailText))
                     ELSE observed
            thinkingId == <<k, l.i + 1>>
        IN  IF LoopContinues(l.i)
            THEN /\ conversation' = addThinkingMessage(shown, thinkingId, <<"Thinking...">>)
                 /\ loops' = [loops EXCEPT ![k] =
                                 [l EXCEPT !.pc = "model", !.i = @ + 1,
                                           !.currentHistory = history,
                                           !.thinkingId = thinkingId]]
                 /\ isLoading' = isLoading
            ELSE /\ conversation' = shown
                 /\ loops' = [loops EXCEPT ![k] = Ended(l, history, l.command, "none")]
                 /\ isLoading' = FALSE
    /\ stored' = SaveEffect(conversation', stored)
    /\ UNCHANGED <<userInput, orch, mount, prompt, expenses, call>>

\* The app is closed after the last submission of the run, nothing being
\* typed, and opened again: the state of the screen is the initial one, what
\* was stored is still there.
Restart ==
    /\ mount \in {"done", "restored", "failed"}
    /\ Len(loops) = MaxPersistedSubmits
    /\ \A k \in 1..Len(loops) : loops[k].pc = "done"
    /\ userInput = <<>>
    /\ userInput' = <<>>
    /\ isLoading' = FALSE
    /\ conversation' = <<>>
    /\ mount' = "start"
    /\ UNCHANGED <<loops, orch, stored, prompt, expenses, call>>

NextPersisted ==
    \/ LoadInitialData
    \/ Restart
    \/ WelcomeArrives
    \/ TypeInput
    \/ PersistedSubmit
    \/ \E k \in 1..Len(loops) : PersistedDecision(k)
    \/ \E k \in 1..Len(loops) : PersistedAct(k)
    \/ \E k \in 1..Len(loops) : PersistedToolReturns(k)

SpecPersisted == InitPersisted /\ [][NextPersisted]_vars

(***************************************************************************)
(* The same screen with what else can happen to it: the stored             *)
(* conversation cannot be read at the start, and the user clears the       *)
(* conversation.  A submission carries a mark, cleared, that is set when   *)
(* the conversation is cleared after it was started.                       *)
(***************************************************************************)
\* A text under CONVERSATION_KEY that JSON.parse throws on.
CorruptItem == [item |-> "corrupt"]

InitSession ==
    /\ userInput = <<>>
    /\ isLoading = FALSE
    /\ conversation = <<>>
    /\ loops = <<>>
    /\ orch = Idle
    /\ stored \in StoredAtStart \cup {CorruptItem}
    /\ mount = "start"
    /\ prompt = <<>>
    /\ expenses = <<>>
    /\ call = NoCall

\* loadInitialData when getItem rejects or JSON.parse throws: the catch
\* block runs before anything was shown.
LoadFails ==
    /\ mount = "start"
    /\ conversation' = CatchBlock(conversation)
    /\ mount' = "failed"
    /\ UNCHANGED <<userInput, isLoading, loops, orch, stored, prompt, expenses, call>>

\* The mount effect: a corrupt item cannot be parsed, any item can fail to
\* be read.
SessionLoad ==
    IF stored = CorruptItem THEN LoadFails ELSE LoadFails \/ LoadInitialData

\* The user presses Clear in the alert of clearConversation, once, the load
\* being over: setConversation([]) and removeItem(CONVERSATION_KEY).  The
\* button is enabled whatever isLoading is.
ClearConversation ==
    /\ mount \in {"done", "restored", "failed"}
    /\ loops # <<>>
    /\ \A k \in 1..Len(loops) : ~loops[k].cleared
    /\ conversation' = <<>>
    /\ stored' = NoItem
    /\ loops' = [k \in 1..Len(loops) |-> [loops[k] EXCEPT !.cleared = TRUE]]
    /\ UNCHANGED <<userInput, isLoading, orch, mount, prompt, expenses, call>>

NextSession ==
    \/ SessionLoad
    \/ WelcomeArrives
    \/ ClearConversation
    \/ TypeInput
    \/ PersistedSubmit
    \/ \E k \in 1..Len(loops) : PersistedDecision(k)
    \/ \E k \in 1..Len(loops) : PersistedAct(k)
    \/ \E k \in 1..Len(loops) : PersistedToolReturns(k)

SpecSession == InitSession /\ [][NextSession]_vars

(***************************************************************************)
(* createMasterPrompt on its own: the history is any sequence of at most   *)
(* MaxHistory turns of the kinds the screens append (a user text with      *)
(* quotes and line breaks in it, a decision, a tool result, a final turn   *)
(* whose text is empty), the empty history included.                       *)
(***************************************************************************)
MaxHistory == 3

PromptTurns ==
    {TextTurn("user", <<"say", SP, QUOTE, "hi", QUOTE, NL, NL, "TOOL_RESULT:">>),
     TextTurn("user", <<"lunch", SP, "50">>),
     CommandTurn([tool_name |-> "addExpense",
                  parameters |-> [amount |-> Num(20), category |-> Str("Food")]]),
     TextTurn("tool", <<"SUCCESS: Expense of", "20", "for", "Food", "has been added.">>),
     TextTurn("system", <<>>)}

PromptHistories == UNION {[1..n -> PromptTurns] : n \in 0..MaxHistory}

InitPrompt ==
    /\ userInput = <<>>
    /\ isLoading = FALSE
    /\ conversation \in PromptHistories
    /\ loops = <<>>
    /\ orch = Idle
    /\ stored = NoItem
    /\ mount = "none"
    /\ prompt = <<>>
    /\ expenses = <<>>
    /\ call = NoCall

\* const prompt = createMasterPrompt(history)
RenderPrompt ==
    /\ prompt = <<>>
    /\ ~PromptThrows(conversation)
    /\ prompt' = createMasterPrompt(conversation)
    /\ UNCHANGED <<userInput, isLoading, conversation, loops, orch, stored, mount,
                   expenses, call>>

SpecPrompt == InitPrompt /\ [][RenderPrompt]_vars

(***************************************************************************)
(* The expense store of services/AppFunctions.js.  expenses is the array   *)
(* kept under EXPENSES_KEY (empty while the key is unset); a call reads    *)
(* it, works on its copy and writes the copy back.  Either storage         *)
(* operation can reject: the helpers catch that, log it and go on.         *)
(***************************************************************************)
\* The calls of the tools that are followed.
MaxCalls == 3

\* The ids of new expenses, in the order they are made: the clock and
\* Math.random() together make each one different from the ones before.
Ids == <<"e1", "e2", "e3", "e4", "e5">>

NaN == [t |-> "number", s |-> "NaN", n |-> 0]

\* Number(amount)
NumberOf(v) ==
    CASE v.t = "number" -> v
      [] v.t = "null" -> Num(0)
      [] v.t = "string" /\ v.s = "" -> Num(0)
      [] v.t = "string" /\ v.s = "20" -> Num(20)
      [] v.t = "string" /\ v.s = "120" -> Num(120)
      [] OTHER -> NaN

\* _readExpenses: the stored array, or [] when getItem or JSON.parse threw
readExpenses(item, failed) == IF failed THEN <<>> ELSE item

\* _writeExpenses: the array replaces the stored one unless setItem threw
writeExpenses(item, array, failed) == IF failed THEN item ELSE array

\* What a tool did: whether it called _writeExpenses and with which array,
\* and the string it returned.
Did(write, array, text) == [write |-> write, array |-> array, text |-> text]

addExpense(read, params, id, time) ==
    LET newExpense ==
            [id |-> Str(id),
             amount |-> NumberOf(Get(params, "amount")),
             category |-> Get(params, "category"),
             note |-> OrElse(Get(params, "note"), Str("")),
             timestamp |-> Num(time)]
    IN  Did(TRUE, Append(read, newExpense),
            <<"SUCCESS: Expense of", ValLex(Get(params, "amount")), "for",
              Get(params, "category").s, "has been added.">>)

\* expenses.sort((a, b) => a.timestamp - b.timestamp): ascending, and
\* stable, so equal timestamps keep their order
RECURSIVE SortByTimestamp(_)
SortByTimestamp(s) ==
    IF s = <<>> THEN <<>>
    ELSE LET rest == SortByTimestamp(Front(s))
             x == Last(s)
             k == Cardinality({j \in 1..Len(rest) :
                                  rest[j].timestamp.n <= x.timestamp.n})
         IN  SubSeq(rest, 1, k) \o <<x>> \o SubSeq(rest, k + 1, Len(rest))

deleteLastExpense(read) ==
    IF read = <<>> THEN Did(FALSE, read, <<"ERROR: No expenses to delete.">>)
    ELSE LET sorted == SortByTimestamp(read)
             deletedExpense == Last(sorted)
         IN  Did(TRUE, Front(sorted),
                 <<"SUCCESS: Deleted expense of", ValLex(deletedExpense.amount),
                   "for", deletedExpense.category.s>>)

\* The members an updates object can have here, and the keys they are
\* kept under.
UpdateKeys ==
    [amount |-> "updates.amount", category |-> "updates.category",
     note |-> "updates.note", id |-> "updates.id",
     timestamp |-> "updates.timestamp"]

\* params.updates as an object of its own
UpdatesOf(params) ==
    [m \in {l \in DOMAIN UpdateKeys : UpdateKeys[l] \in DOMAIN params} |->
        params[UpdateKeys[m]]]

\* { ...expense, ...updates }
Spread(expense, updates) ==
    [m \in DOMAIN expense \cup DOMAIN updates |->
        IF m \in DOMAIN updates THEN updates[m] ELSE expense[m]]

\* expenses.findIndex(e => e.id === id), 0 standing for -1
FindIndex(read, id) ==
    IF \E j \in 1..Len(read) : read[j].id = id
    THEN Min({j \in 1..Len(read) : read[j].id = id})
    ELSE 0

NotFoundText(id) == <<"ERROR: Could not find an expense with ID", id.s>>

updateExpense(read, params) ==
    LET id == Get(params, "id")
        expenseIndex == FindIndex(read, id)
    IN  IF expenseIndex = 0 THEN Did(FALSE, read, NotFoundText(id))
        ELSE Did(TRUE,
                 [read EXCEPT ![expenseIndex] =
                     Spread(read[expenseIndex], UpdatesOf(params))],
                 <<"SUCCESS: Expense", id.s, "has been updated.">>)

deleteExpenseById(read, params) ==
    LET id == Get(params, "id")
        expensesAfterDelete == SelectSeq(read, LAMBDA e : e.id # id)
    IN  IF Len(expensesAfterDelete) = Len(read)
        THEN Did(FALSE, read, NotFoundText(id))
        ELSE Did(TRUE, expensesAfterDelete,
                 <<"SUCCESS: Expense", id.s, "has been deleted.">>)

\* toolMapping[command.tool_name](command.parameters), for the four tools
\* that write to the store
RunTool(cmd, read, id, time) ==
    CASE cmd.tool_name = "addExpense" -> addExpense(read, cmd.parameters, id, time)
      [] cmd.tool_name = "deleteLastExpense" -> deleteLastExpense(read)
      [] cmd.tool_name = "updateExpense" -> updateExpense(read, cmd.parameters)
      [] OTHER -> deleteExpenseById(read, cmd.parameters)

\* What a model asks of the store: expenses are added with and without a
\* note and with an amount of zero, the first expense and one that was
\* never stored are updated and deleted, and an update names members the
\* schema does not declare.
StoreCandidates ==
    {Candidate("object", Str("addExpense"), Obj, f) : f \in
        {[amount |-> Num(20), category |-> Str("Food"), note |-> Str("chai")],
         [amount |-> Num(0), category |-> Str("Food")],
         [amount |-> Str("20"), category |-> Str("Food")]}}
    \cup {Candidate("object", Str("deleteLastExpense"), Obj, NoFields)}
    \cup {Candidate("object", Str("updateExpense"), Obj, f) : f \in
            {[id |-> Str("e1"), updates |-> Obj] @@ ("updates.amount" :> Num(120)),
             [id |-> Str("e1"), updates |-> Obj] @@ ("updates.amount" :> Num(0)),
             [id |-> Str("e1"), updates |-> Obj]
                 @@ ("updates.category" :> Str("Travel"))
                 @@ ("updates.id" :> Str("e9"))
                 @@ ("updates.timestamp" :> Num(0)),
             [id |-> Str("e9"), updates |-> Obj] @@ ("updates.note" :> Str("lunch")),
             [id |-> Str("e1")]}}
    \cup {Candidate("object", Str("deleteExpenseById"), Obj, [id |-> Str(i)]) :
             i \in {"e1", "e9"}}

\* The ToolCalls processUserRequest returns for them.
StoreCommands == {Validate(c).value : c \in {d \in StoreCandidates : Validate(d).ok}}

InitStore ==
    /\ userInput = <<>>
    /\ isLoading = FALSE
    /\ conversation = <<>>
    /\ loops = <<>>
    /\ orch = Idle
    /\ stored = NoItem
    /\ mount = "none"
    /\ prompt = <<>>
    /\ expenses = <<>>
    /\ call = NoCall

\* One call of a tool with a command of the set: the read, the work on the
\* copy, the write if the tool gets to it, and the string returned.  The
\* clock has moved on since the call before, or has not.
Dispatch(commands) ==
    /\ call.n < MaxCalls
    /\ \E cmd \in commands, readFailed \in BOOLEAN, writeFailed \in BOOLEAN,
          time \in {call.time, call.time + 1} :
          LET read == readExpenses(expenses, readFailed)
              did == RunTool(cmd, read, Ids[call.n + 1], time)
          IN  /\ writeFailed => did.write
              /\ expenses' = IF did.write
                             THEN writeExpenses(expenses, did.array, writeFailed)
                             ELSE expenses
              /\ call' = [tool |-> cmd.tool_name, parameters |-> cmd.parameters,
                          before |-> expenses, result |-> did.text,
                          readFailed |-> readFailed, writeFailed |-> writeFailed,
                          wrote |-> did.write, time |-> time, n |-> call.n + 1]
    /\ UNCHANGED <<userInput, isLoading, conversation, loops, orch, stored,
                   mount, prompt>>

StoreCall == Dispatch(StoreCommands)

SpecStore == InitStore /\ [][StoreCall]_vars

(***************************************************************************)
(* The store behind the loop of the persisted screen: a tool is called     *)
(* only with a ToolCall that processUserRequest returned and that the      *)
(* logic validation of handleUserSubmit let through.                       *)
(***************************************************************************)
\* The conversation the handler closes over holds a tool turn with an
\* expense text, or holds none.
GuardConversations ==
    {<<>>,
     <<TextTurn("tool", <<"SUCCESS: Expense of", "20", "for", "Food",
                          "has been added.">>)>>}

\* if (logicError) { ... break; }: the commands that get to the tool call
GuardedCommands ==
    {cmd \in StoreCommands :
        \E conv \in GuardConversations : LogicError(cmd, conv) = NoLogicError}

GuardedCall == Dispatch(GuardedCommands)

SpecGuarded == InitStore /\ [][GuardedCall]_vars

(***************************************************************************)
(* The tool catalogue the prompt shows the model (AVAILABLE TOOLS), as the *)
(* reading of "well-formed" the properties of validation are stated        *)
(* against.                                                                *)
(***************************************************************************)
Params(required, optional) == [required |-> required, optional |-> optional]

AvailableTools ==
    [addExpense |-> Params({"amount", "category"}, {"note"}),
     getSpendingHistory |-> Params({"period"}, {}),
     listExpenses |-> Params({"query"}, {}),
     updateExpense |-> Params({"id", "updates"},
                              {"updates.amount", "updates.category", "updates.note"}),
     deleteExpenseById |-> Params({"id"}, {}),
     deleteLastExpense |-> Params({}, {}),
     answerUser |-> Params({"answer"}, {}),
     clarify |-> Params({"question"}, {})]

DeclaredKeys(tool) == AvailableTools[tool].required \cup AvailableTools[tool].optional

\* The type the catalogue gives a key: it is the same in every tool.
HasCatalogueType(k, v) ==
    CASE k \in {"amount", "updates.amount"} -> v.t = "number"
      [] k = "period" ->
           v.t = "string" /\ v.s \in {"today", "this week", "this month", "all"}
      [] k = "updates" -> v.t = "object"
      [] OTHER -> v.t = "string"

KnownTool(c) ==
    c.root = "object" /\ c.tool_name.t = "string" /\ c.tool_name.s \in ToolNames

UnknownTool(c) == c.root = "object" /\ ~KnownTool(c)

\* The declared keys of a known tool's candidate that are required and
\* missing, or present with a value of another type.
OffendingKeys(c) ==
    {k \in DeclaredKeys(c.tool_name.s) :
        \/ k \in AvailableTools[c.tool_name.s].required /\ k \notin DOMAIN c.fields
        \/ k \in DOMAIN c.fields /\ ~HasCatalogueType(k, c.fields[k])}

OffendingPaths(c) ==
    IF c.parameters.t # "object" THEN {<<"parameters">>}
    ELSE {PathOf(k) : k \in OffendingKeys(c)}

WellFormed(c) == KnownTool(c) /\ OffendingPaths(c) = {}

\* A call of processUserRequest has got as far as validating a parsed value.
Validated == orch.phase = "returned" /\ orch.error \in {"none", "zod"}

(***************************************************************************)
(* Properties of one call of processUserRequest (SpecOrch).                *)
(***************************************************************************)

\* C2: when the backend fails with a transport error, the call makes
\* exactly three backend attempts and then returns the clarify fallback,
\* without throwing.
C2_ThreeAttemptsThenFallback ==
    (orch.phase # "idle" /\ orch.reply.kind \in TransportErrors) =>
        /\ orch.phase = "returned"
        /\ orch.fetches = 3
        /\ orch.result = Fallback

\* C7: a parsed candidate that is well-formed under a registered tool is
\* accepted, and the ToolCall returned has the candidate's tool_name and the
\* candidate's value for every declared parameter, a declared parameter
\* absent from the candidate being absent from the ToolCall.
C7_WellFormedReturnedAsIs ==
    (Validated /\ WellFormed(orch.parsed)) =>
        /\ orch.error = "none"
        /\ orch.result.tool_name = orch.parsed.tool_name.s
        /\ \A k \in DeclaredKeys(orch.parsed.tool_name.s) :
              /\ k \in DOMAIN orch.result.parameters <=> k \in DOMAIN orch.parsed.fields
              /\ Get(orch.result.parameters, k) = Get(orch.parsed.fields, k)

\* C7 happens: an addExpense without a note and with a key the schema does
\* not declare has been accepted, the note absent from the ToolCall.
C7_Witness ==
    /\ Validated /\ WellFormed(orch.parsed)
    /\ orch.parsed.tool_name.s = "addExpense"
    /\ "note" \notin DOMAIN orch.parsed.fields
    /\ "extra" \in DOMAIN orch.parsed.fields
    /\ DOMAIN orch.result.parameters = {"amount", "category"}

\* C8: validation fails with the invalid-discriminator issue at tool_name
\* exactly for the candidates whose tool_name is no registered name; text
\* that does not parse and a known tool with malformed parameters end with
\* other outcomes.
C8_UnknownToolIdentified ==
    orch.phase = "returned" =>
        (UnknownTool(orch.parsed)
            <=> /\ orch.error = "zod"
                /\ orch.issues = {Issue("invalid_union_discriminator", <<"tool_name">>)})

\* C8 happens: a candidate naming sendEmail has been rejected.
C8_Witness ==
    /\ orch.phase = "returned"
    /\ orch.parsed.root = "object"
    /\ orch.parsed.tool_name = Str("sendEmail")
    /\ orch.error = "zod"
    /\ orch.result = Fallback

\* C9: a candidate with a registered tool_name and a required parameter
\* missing, or a parameter of the wrong type, is rejected; the fallback and
\* not the candidate is returned, and the issues raised are at the paths of
\* the offending fields, all of them and no other.
C9_OffendingFieldIdentified ==
    (Validated /\ KnownTool(orch.parsed) /\ OffendingPaths(orch.parsed) # {}) =>
        /\ orch.error = "zod"
        /\ orch.result = Fallback
        /\ {i.path : i \in orch.issues} = OffendingPaths(orch.parsed)

\* C9 happens: an addExpense whose amount is a string and whose category is
\* missing has been rejected with an issue at each of the two.
C9_Witness ==
    /\ Validated /\ KnownTool(orch.parsed)
    /\ orch.parsed.tool_name.s = "addExpense"
    /\ Get(orch.parsed.fields, "amount") = Str("20")
    /\ "category" \notin DOMAIN orch.parsed.fields
    /\ Cardinality(orch.issues) = 2
    /\ orch.result = Fallback

\* The JSON texts of the candidates that are objects.
ObjectBodies == {TextOfCandidate[c] : c \in {d \in Candidates : d.root = "object"}}

\* C10: for a model text that is prose or none, then a json fenced block
\* holding one JSON object, then prose or none, the cleaned span is exactly
\* the text of that object.
C10_FencedObjectExtracted ==
    \A pre \in ProseBefore, post \in ProseAfter :
        LET text == orch.reply.text
            from == Len(pre) + Len(FenceOpen) + 1
            to == Len(text) - Len(post) - Len(FenceClose)
            body == SubSeq(text, from, to)
        IN  (/\ orch.phase = "returned" /\ orch.reply.kind = "text"
             /\ body \in ObjectBodies
             /\ text = Wrap(pre, TRUE, body, post))
            => orch.cleaned = body

(***************************************************************************)
(* Properties of the agent loop (Spec).                                    *)
(***************************************************************************)
\* The schemas of the contract a ToolCall is valid under.
SchemasAccepting(cmd) ==
    {tool \in DOMAIN ToolSchema :
        cmd.tool_name = tool /\ ParamIssues(ToolSchema[tool], cmd.parameters) = {}}

\* The turn the conversation shows right after the history loop l ended
\* with: every later submission keeps what is before it.
ClosingTurn(l) == conversation[Len(l.currentHistory) + 1]

Finished == {k \in 1..Len(loops) : loops[k].pc = "done"}
InFlight == {k \in 1..Len(loops) : loops[k].pc # "done"}

\* C1: every call of processUserRequest the loop makes returns, and what it
\* returns is a ToolCall valid under exactly one schema of the contract,
\* the clarify fallback whenever something failed.
C1_ResolvesToValidToolCall ==
    orch.phase # "idle" =>
        /\ orch.phase = "returned"
        /\ Cardinality(SchemasAccepting(orch.result)) = 1
        /\ orch.error # "none" => orch.result = Fallback

\* C3: a submission makes at most MAX_STEPS calls of processUserRequest and
\* at most MAX_STEPS tool calls; a submission in which every call returned
\* a ToolCall that was dispatched and every dispatch returned has run
\* MAX_STEPS iterations, each adding a thought and an observation, and has
\* ended with the turn asking for more detail.
C3_StepBound ==
    \A k \in 1..Len(loops) :
        LET l == loops[k]
        IN  /\ l.calls <= MAX_STEPS
            /\ l.dispatches <= MAX_STEPS
            /\ (l.pc = "done" /\ l.fault = "none" /\ l.dispatches = l.calls) =>
                  /\ l.calls = MAX_STEPS
                  /\ l.i = MAX_STEPS - 1
                  /\ Len(l.currentHistory) = l.start + 2 * MAX_STEPS
                  /\ Len(conversation) > Len(l.currentHistory)
                  /\ ClosingTurn(l) = TextTurn("system", MoreDetailText)

\* C3 happens: a submission has used up its steps.
C3_Witness ==
    \E k \in Finished :
        /\ loops[k].fault = "none"
        /\ loops[k].calls = MAX_STEPS
        /\ loops[k].dispatches = MAX_STEPS
        /\ ClosingTurn(loops[k]).text = MoreDetailText

\* C4: after a submission has finished, whatever its outcome, the turn
\* closing it is a system turn whose content is a string that is not empty.
C4_EndsWithMessage ==
    \A k \in Finished :
        /\ Len(conversation) > Len(loops[k].currentHistory)
        /\ ClosingTurn(loops[k]).role = "system"
        /\ ClosingTurn(loops[k]).kind = "string"
        /\ HasText(ClosingTurn(loops[k]).text)

\* The question of a clarify, the answer of an answerUser.
TerminalText(cmd) ==
    IF cmd.tool_name = "clarify" THEN TextOf(cmd.parameters.question.s)
    ELSE TextOf(cmd.parameters.answer.s)

\* C5: a submission that got clarify or answerUser has ended with a system
\* turn carrying the question or the answer, without a tool call at that
\* step and without a further call of processUserRequest.
C5_TerminalEndsSubmission ==
    \A k \in 1..Len(loops) :
        LET l == loops[k]
        IN  (l.fault = "none" /\ l.command.tool_name \in TerminalTools) =>
                /\ l.pc = "done"
                /\ l.calls = l.i + 1
                /\ l.dispatches = l.i
                /\ Len(conversation) > Len(l.currentHistory)
                /\ ClosingTurn(l) = TextTurn("system", TerminalText(l.command))

\* C6: at most one invocation of handleUserSubmit is between its first
\* await and its finally block, and while one is, isLoading is set.
C6_OneLoopAtATime ==
    /\ Cardinality(InFlight) <= 1
    /\ InFlight # {} => isLoading

\* C6 happens: a second submission is awaiting its tool after the first has
\* finished.
C6_Witness ==
    /\ Len(loops) = 2
    /\ loops[1].pc = "done"
    /\ loops[2].pc = "tool"
    /\ isLoading

\* C11: a ToolCall returned for addExpense has an amount that is a number
\* greater than 0 and a category that is a string and not empty.
C11_AddExpenseWellShaped ==
    (orch.phase = "returned" /\ orch.result.tool_name = "addExpense") =>
        /\ Get(orch.result.parameters, "amount").t = "number"
        /\ Get(orch.result.parameters, "amount").n > 0
        /\ Get(orch.result.parameters, "category").t = "string"
        /\ Get(orch.result.parameters, "category").s # ""

\* C16: the clarify fallback is returned for a failure (backend error, text
\* that does not parse, a parsed value the schema rejects) only after the
\* third attempt has failed.
C16_FallbackOnlyAfterLastAttempt ==
    (orch.phase = "returned" /\ orch.error # "none") =>
        /\ orch.result = Fallback
        /\ orch.fetches = 3

\* The tool observations loop l has pushed since its submission started.
Observations(l) ==
    {j \in (l.start + 1)..Len(l.currentHistory) : l.currentHistory[j].role = "tool"}

\* C13: a tool call that throws does not abort the submission: the catch
\* block of the loop has caught nothing, and the failed call has left a tool
\* observation in the history like every call that returned.
C13_ToolFailureObserved ==
    \A k \in 1..Len(loops) :
        LET l == loops[k]
        IN  l.threw > 0 =>
                /\ l.fault = "none"
                /\ Cardinality(Observations(l)) =
                       IF l.pc = "tool" THEN l.dispatches - 1 ELSE l.dispatches

\* C17: a submission asks for its next decision only after every tool call
\* it has started has settled, and the history it passes then holds, after
\* the turns it started from, a decision and its observation for every
\* earlier step, in step order.
C17_StepsSequential ==
    \A k \in 1..Len(loops) :
        LET l == loops[k]
            h == l.currentHistory
        IN  /\ l.pc = "model" =>
                  /\ l.calls = l.i /\ l.dispatches = l.i
                  /\ Len(h) = l.start + 2 * l.i
                  /\ \A j \in 1..l.i :
                        /\ h[l.start + 2 * j - 1].role = "ai"
                        /\ h[l.start + 2 * j].role = "tool"
            /\ l.pc = "tool" => (l.calls = l.i + 1 /\ l.dispatches = l.i + 1)

\* C17 happens: a submission is asking for its third decision.
C17_Witness ==
    \E k \in 1..Len(loops) :
        /\ loops[k].pc = "model"
        /\ loops[k].i = 2
        /\ Cardinality(Observations(loops[k])) = 2

DestructiveTools == {"deleteExpenseById", "deleteLastExpense"}

\* What listExpenses and getSpendingHistory leave in the history.
ListingTexts ==
    {res.text : res \in
        {r \in ToolOutcomes([tool_name |-> "listExpenses", parameters |-> NoFields])
               \cup ToolOutcomes([tool_name |-> "getSpendingHistory",
                                  parameters |-> NoFields]) : ~r.threw}}

\* A turn that is the question of a clarify step, or the result of a listing.
ClarifyOrListing(m) ==
    \/ m.role = "tool" /\ m.kind = "string" /\ m.text \in ListingTexts
    \/ m.role = "system" /\ m.kind = "string" /\ m.text = <<FallbackQuestion>>
    \/ m.role = "ai" /\ m.kind = "object"
           /\ m.cmd.tool_name \in {"clarify", "listExpenses", "getSpendingHistory"}

\* C12: whenever a submission calls deleteExpenseById or deleteLastExpense,
\* the history it holds has a clarify step or the result of a listing
\* before the call.
C12_DestructiveAfterListing ==
    \A k \in 1..Len(loops) :
        LET l == loops[k]
        IN  (l.pc = "tool" /\ l.command.tool_name \in DestructiveTools) =>
                \E j \in 1..Len(l.currentHistory) : ClarifyOrListing(l.currentHistory[j])

\* C18: the decision a submission is acting on is the last turn of its
\* history, and in the history it passes to a later call every observation
\* stands right after the decision it answers.
C18_DecisionsRecorded ==
    \A k \in 1..Len(loops) :
        LET l == loops[k]
            h == l.currentHistory
        IN  /\ l.pc \in {"pause", "tool"} => h[Len(h)] = CommandTurn(l.command)
            /\ l.pc = "model" =>
                  \A j \in Observations(l) :
                      h[j - 1].role = "ai" /\ h[j - 1].kind = "object"

\* The turns of a conversation: its entries but for the transient
\* 'thinking' ones.
Turns(conv) == SelectSeq(conv, LAMBDA m : m.role # "thinking")

IsPrefix(s, t) == Len(s) <= Len(t) /\ \A j \in 1..Len(s) : t[j] = s[j]

\* C19: every step of the screen leaves the turns the conversation had
\* where they were and as they were: the turns after the step extend the
\* turns before it.
C19_AppendOnly == [][IsPrefix(Turns(conversation), Turns(conversation'))]_vars

\* The histories the submissions of the state have held: what each holds
\* now and, a history growing by appends only, every prefix of it.
HistoriesHeld ==
    UNION {{SubSeq(loops[k].currentHistory, 1, n) :
                n \in 0..Len(loops[k].currentHistory)} : k \in 1..Len(loops)}

\* C14: every history a submission has held is rendered, and two of them
\* that differ in a turn (its role or its content) are rendered as
\* different history sections.
C14_RenderingKeepsTurns ==
    \A a \in HistoriesHeld :
        /\ ~PromptThrows(a)
        /\ \A b \in HistoriesHeld : a # b => formattedHistory(a) # formattedHistory(b)

\* The text before the history section of a prompt, and the text after it.
PromptHead == createMasterPrompt(<<>>)
HeadLen == Len(PromptHead) - 3

RECURSIVE SumLen(_, _)
SumLen(history, n) ==
    IF n = 0 THEN 0 ELSE SumLen(history, n - 1) + Len(FormatTurn(history[n]))

\* Where the rendering of turn i starts in the prompt of history: after the
\* head, the renderings of the turns before it and a blank line after each.
TurnStart(history, i) == HeadLen + SumLen(history, i - 1) + 2 * (i - 1) + 1

Unbound ==
    {k \in 1..Len(loops) :
        /\ loops[k].command # NoCommand
        /\ loops[k].command.tool_name \notin TerminalTools \cup toolMapping}

\* C20: a submission whose decision names a tool with no implementation has
\* ended with that decision: the decision is the last turn of its history
\* and one explanatory final turn follows it in the conversation, no tool
\* was called for it (every earlier step called one) and processUserRequest
\* was not called again.
C20_UnavailableEndsSubmission ==
    \A k \in Unbound :
        LET l == loops[k]
            h == l.currentHistory
        IN  /\ l.pc = "done" /\ l.fault = "none"
            /\ h[Len(h)] = CommandTurn(l.command)
            /\ ClosingTurn(l) = TextTurn("system", ToolUnavailableText)
            /\ l.dispatches = l.i
            /\ l.calls = l.i + 1
            /\ Cardinality(Observations(l)) = l.i

\* C20 happens: after an expense was added, the second decision of a
\* submission named sendEmail, and the submission is over.
C20_Witness ==
    \E k \in Unbound :
        /\ loops[k].command.tool_name = "sendEmail"
        /\ loops[k].i = 1
        /\ loops[k].pc = "done"

\* What is stored is the conversation: it parses to the turns of the
\* conversation, one for one and in their order.
StoredIsConversation ==
    Len(conversation) > 0 =>
        /\ stored # NoItem
        /\ Len(stored.value) = Len(conversation)
        /\ \A j \in 1..Len(conversation) : ParseTurn(stored.value[j]) = conversation[j]

\* A start that finds more than one turn stored shows these turns, in their
\* order, and has asked the model nothing.
StartRestores ==
    (mount = "start" /\ mount' # "start" /\ stored # NoItem /\ Len(stored.value) > 1) =>
        /\ Len(conversation') = Len(stored.value)
        /\ \A j \in 1..Len(stored.value) : conversation'[j] = ParseTurn(stored.value[j])
        /\ orch' = orch
        /\ mount' = "restored"

\* C21: after every step of the screen what is stored is the conversation
\* as it is then, and a start that finds more than one turn stored restores
\* them turn for turn, in their order, without a call of the model.
C21_PersistenceRoundTrips == []StoredIsConversation /\ [][StartRestores]_vars

\* C21 happens: the app was opened again after a submission that added an
\* expense, and shows what the submission left: the user turn, the result
\* of the tool and the answer.
C21_Witness ==
    /\ mount = "restored"
    /\ Len(loops) > 0
    /\ \E j \in 2..(Len(conversation) - 1) :
          /\ conversation[j - 1].role = "user"
          /\ conversation[j].role = "tool"
          /\ conversation[j + 1].role = "system"
          /\ loops[1].currentHistory = SubSeq(conversation, 1, j)

MutatingTools == {"addExpense", "updateExpense", "deleteExpenseById", "deleteLastExpense"}

\* C22: a submission that ended with the fallback clarify of
\* processUserRequest has decided on no tool that changes the expenses
\* before: no decision of its history names one.
C22_FallbackAfterNoChange ==
    \A k \in 1..Len(loops) :
        LET l == loops[k]
            h == l.currentHistory
        IN  (l.pc = "done" /\ l.fault = "none" /\ l.command = Fallback) =>
                \A j \in (l.start + 1)..Len(h) :
                    h[j].role = "ai" => h[j].cmd.tool_name \notin MutatingTools

\* C23: every turn of the conversation whose role is user, tool or system
\* has a string as its content.
C23_ContentIsString ==
    \A j \in 1..Len(conversation) :
        conversation[j].role \in {"user", "tool", "system"} =>
            conversation[j].kind = "string"

\* C24: every accepted submission comes to its end, and whenever the input
\* is disabled (isLoading) it is enabled again later; the calls of the model
\* and of the tools being assumed to settle.
C24_SubmissionTerminates ==
    /\ \A k \in 1..MaxSubmits :
          (Len(loops) >= k) ~> (Len(loops) >= k /\ loops[k].pc = "done")
    /\ isLoading ~> ~isLoading

\* C24 happens: a submission has ended on the exception path (a tool threw)
\* and the input is enabled again.
C24_Witness ==
    /\ ~isLoading
    /\ \E k \in 1..Len(loops) :
          loops[k].pc = "done" /\ loops[k].fault # "none" /\ loops[k].threw > 0

\* C25: the tools of the discriminated union are those rule 4 of the prompt
\* names and those AVAILABLE TOOLS lists, each of them is terminal or bound
\* in toolMapping, and no submission has a decision naming a tool that is
\* neither: the conversation has no turn saying that a tool was unavailable
\* after a decision.
C25_CataloguesAgree ==
    /\ DOMAIN ToolSchema = {PromptTools[j] : j \in 1..Len(PromptTools)}
    /\ DOMAIN ToolSchema = DOMAIN AvailableTools
    /\ \A t \in DOMAIN ToolSchema : t \in TerminalTools \/ t \in toolMapping
    /\ \A k \in 1..Len(loops) :
          loops[k].command # NoCommand =>
              loops[k].command.tool_name \in TerminalTools \cup toolMapping
    /\ \A j \in 2..Len(conversation) :
          conversation[j - 1].role = "ai" =>
              conversation[j] # TextTurn("system", ToolUnavailableText)

\* C25 happens: the model named a tool outside the catalogue (sendEmail),
\* processUserRequest returned its fallback, and the submission ended with
\* the question of the fallback.
C25_Witness ==
    /\ orch.phase = "returned"
    /\ orch.parsed.tool_name = Str("sendEmail")
    /\ orch.result = Fallback
    /\ \E k \in 1..Len(loops) :
          loops[k].pc = "done" /\ loops[k].command = Fallback

(***************************************************************************)
(* The expense store.                                                      *)
(***************************************************************************)
\* The call returned a SUCCESS status.
ReturnedSuccess ==
    call.result # <<>>
    /\ call.result[1] \in {"SUCCESS: Expense of", "SUCCESS: Deleted expense of",
                           "SUCCESS: Expense"}

ReturnedError == call.result # <<>> /\ ~ReturnedSuccess

\* C26: whenever addExpense returns its SUCCESS status, the stored expenses
\* are the ones stored before the call, unchanged and in their order,
\* followed by exactly one new expense; a storage read or write that fails
\* during the call makes no difference to that.
C26_AddExpenseAddsOne ==
    (call.tool = "addExpense" /\ ReturnedSuccess)
        => /\ Len(expenses) = Len(call.before) + 1
           /\ SubSeq(expenses, 1, Len(call.before)) = call.before
           /\ \A j \in 1..Len(call.before) : expenses[j].id # Last(expenses).id

\* The sequence without its j-th element.
RemoveAt(s, j) == SubSeq(s, 1, j - 1) \o SubSeq(s, j + 1, Len(s))

\* The same elements, each as often, in whatever order.
SameElements(s, t) ==
    /\ Len(s) = Len(t)
    /\ \A x \in {s[j] : j \in 1..Len(s)} \cup {t[j] : j \in 1..Len(t)} :
          Cardinality({j \in 1..Len(s) : s[j] = x})
              = Cardinality({j \in 1..Len(t) : t[j] = x})

\* C27: deleteLastExpense removes exactly one expense, one whose timestamp
\* no other stored expense exceeds, and leaves every other stored expense
\* as it was; on an empty store it returns the ERROR status and writes
\* nothing.
C27_DeleteLastRemovesNewest ==
    call.tool = "deleteLastExpense"
        => IF call.before = <<>>
           THEN ReturnedError /\ ~call.wrote /\ expenses = <<>>
           ELSE \E j \in 1..Len(call.before) :
                   /\ \A i \in 1..Len(call.before) :
                         call.before[i].timestamp.n <= call.before[j].timestamp.n
                   /\ SameElements(expenses, RemoveAt(call.before, j))

\* The id of the call names a stored expense.
ExistingId ==
    \E j \in 1..Len(call.before) : call.before[j].id = Get(call.parameters, "id")

\* C28: for every ToolCall the validator accepts, updateExpense on an
\* existing id changes only the amount, category and note of one expense
\* of that id: the id and timestamp of that expense, the number of stored
\* expenses and every other expense are as they were before the call.
C28_UpdateChangesOnlyItsFields ==
    (call.tool = "updateExpense" /\ ExistingId)
        => /\ Len(expenses) = Len(call.before)
           /\ \E j \in 1..Len(call.before) :
                 /\ call.before[j].id = Get(call.parameters, "id")
                 /\ DOMAIN expenses[j] = DOMAIN call.before[j]
                 /\ \A m \in DOMAIN expenses[j] \ {"amount", "category", "note"} :
                       expenses[j][m] = call.before[j][m]
                 /\ \A i \in 1..Len(call.before) :
                       i # j => expenses[i] = call.before[i]

\* An accepted update whose candidate named an id and a timestamp among
\* its updates has changed the category of the first of two expenses.
C28_Witness ==
    /\ call.tool = "updateExpense"
    /\ ExistingId
    /\ ReturnedSuccess
    /\ Len(call.before) = 2
    /\ "updates.category" \in DOMAIN call.parameters
    /\ expenses[1].category = Str("Travel")
    /\ call.before[1].category = Str("Food")
    /\ expenses[2] = call.before[2]

\* C29: updateExpense and deleteExpenseById called with an id no stored
\* expense has return an ERROR status, write nothing and leave the store as
\* it was; deleteExpenseById called with an id a stored expense has removes
\* the expenses of that id, all of them, and nothing else.
C29_UnknownIdLeavesStore ==
    /\ (call.tool \in {"updateExpense", "deleteExpenseById"} /\ ~ExistingId)
          => ReturnedError /\ ~call.wrote /\ expenses = call.before
    /\ (call.tool = "deleteExpenseById" /\ ExistingId)
          => expenses = SelectSeq(call.before,
                                  LAMBDA e : e.id # Get(call.parameters, "id"))

\* C30: in the revision with logic validation before the tool call, no
\* tool the loop calls stores an expense whose amount is not a number or is
\* not positive: after any sequence of submissions every stored expense has
\* an amount greater than zero.
C30_StoredAmountsPositive ==
    \A j \in 1..Len(expenses) :
        /\ expenses[j].amount.t = "number"
        /\ expenses[j].amount # NaN
        /\ expenses[j].amount.n > 0

(***************************************************************************)
(* The screen that keeps its conversation: logic validation, thinking      *)
(* entries, the welcome load.                                              *)
(***************************************************************************)
\* How the strings begin that a tool returns in place of expense data, and
\* the string handleUserSubmit puts in place of what a tool threw.
StatusHeads ==
    {"SUCCESS: Expense of", "SUCCESS: Expense", "SUCCESS: Deleted expense of",
     "ERROR: No expenses to delete.", "ERROR: Could not find an expense with ID",
     "RESULT: No expenses found matching that description.", "[]",
     "Tool execution failed."}

\* A tool observation that is expense data: a listing that is not empty.
NonEmptyListing(m) ==
    m.role = "tool" /\ m.kind = "string" /\ m.text # <<>> /\ m.text[1] \notin StatusHeads

\* C31: a submission calls deleteExpenseById only with a history that
\* holds an earlier tool observation that is a non-empty listing, and ends
\* on the decision without calling it only with a history that holds none.
C31_DeleteByIdIffListed ==
    \A k \in 1..Len(loops) :
        LET l == loops[k]
            listed == \E j \in 1..Len(l.currentHistory) :
                          NonEmptyListing(l.currentHistory[j])
        IN  l.command.tool_name = "deleteExpenseById" =>
                /\ l.pc = "tool" => listed
                /\ (l.pc = "done" /\ l.dispatches = 0) => ~listed

\* The step a thinking entry was put in for is still under way: the welcome
\* load is waiting for its greeting, or the submission is between the
\* addThinkingMessage of a step and the removal that follows its decision.
StepUnderWay(m) ==
    IF m.id = WelcomeThinkingId THEN mount = "greeting"
    ELSE \E k \in 1..Len(loops) :
            loops[k].thinkingId = m.id /\ loops[k].pc \in {"model", "pause"}

\* C32: a thinking entry never outlives its step: every thinking entry of
\* the conversation is the one of a step under way, so that after a
\* submission has finished, on whatever path, none of its entries is left.
C32_ThinkingNeverOutlivesStep ==
    \A j \in 1..Len(conversation) :
        conversation[j].role = "thinking" => StepUnderWay(conversation[j])

\* C33: the welcome load discards no turn: when it completes, every turn
\* the conversation held (the turn of a user who submitted while the
\* greeting was being fetched, and what the loop appended since) is in the
\* conversation still.
C33_WelcomeLoadKeepsTurns ==
    [][(mount = "greeting" /\ mount' # "greeting") =>
          \A j \in 1..Len(conversation) :
              conversation[j].role # "thinking" =>
                  \E i \in 1..Len(conversation') : conversation'[i] = conversation[j]]_vars

\* C34: after the user has confirmed Clear, neither the conversation nor
\* what is stored holds a turn of a submission that was started before:
\* as long as every submission of the run was started before the clear,
\* both hold no turn at all, a submission that was in flight at the moment
\* of the clear included.
C34_ClearedTurnsStayGone ==
    (loops # <<>> /\ \A k \in 1..Len(loops) : loops[k].cleared)
        => /\ Turns(conversation) = <<>>
           /\ stored # NoItem => Turns(ParseConversation(stored)) = <<>>

\* C35: when loading the initial data fails, startup ends with the
\* conversation made of the default welcome message alone.
C35_FailedLoadShowsWelcome ==
    [][(mount # "failed" /\ mount' = "failed")
          => conversation' = <<DefaultWelcome>>]_vars

(***************************************************************************)
(* The response parser on unfenced text.                                   *)
(***************************************************************************)
\* C36: for a model text without a fence that holds a JSON object, with or
\* without commentary before and after it (on the same line or on lines of
\* its own), the cleaned text is the text from the first opening brace to
\* the last closing brace; a text that is the bare object is cleaned to
\* itself.
C36_UnfencedSpanIsolated ==
    LET text == orch.reply.text
        opens == {i \in 1..Len(text) : text[i] = LB}
        closes == {i \in 1..Len(text) : text[i] = RB}
    IN  (/\ orch.phase = "returned" /\ orch.reply.kind = "text"
         /\ \A i \in 1..Len(text) : text[i] # BT
         /\ opens # {} /\ closes # {}
         /\ SubSeq(text, Min(opens), Max(closes)) \in ObjectBodies)
        => orch.cleaned = SubSeq(text, Min(opens), Max(closes))
====
